---- MODULE Spec2Model ----
(***************************************************************************)
(* A model of compare_dir/directory_comparer.py: the ordered concurrent    *)
(* comparison engine (DirectoryComparer), the records it yields, the       *)
(* summary accumulator and the consumer loop of main.                      *)
(*                                                                         *)
(* The main thread runs the generator and its consumer (a generator runs   *)
(* only while the consumer pulls), so one program counter, pc, covers      *)
(* both.  The worker threads of the ThreadPoolExecutor are modelled by the *)
(* futures sequence: a future is started in submission order while fewer   *)
(* than max_workers are running, and finishes at any later time.           *)
(***************************************************************************)
EXTENDS Integers, Sequences, FiniteSets, TLC

\* ---------------------------------------------------------------- bounds

\* Largest worker-pool size tried (max_workers ranges over 1..MaxWorkers).
MaxWorkers == 2

\* Longest file content (in bytes) of the exhaustive pair-comparator check.
MaxLen == 2

\* Most update calls in one run of the summary-accumulator check.
MaxUpdates == 3

\* ------------------------------------------------------------- constants

ONLY_IN_DIR1 == 1
ONLY_IN_DIR2 == 2
IN_BOTH == 3

\* Python's None, and a value that is set.
None == << >>
Some(v) == << v >>

\* --------------------------------------------------------- relative paths

\* Relative paths are strings; a string is modelled as the sequence of its
\* characters' code points.  "a" < "ab" < "b" exercises the prefix rule.
PathNames == { <<1>>, <<1, 2>>, <<2>> }

\* Python's str.__lt__: lexicographic order by code point, a proper prefix
\* first.
RECURSIVE StrLess(_, _)
StrLess(a, b) ==
    IF b = << >> THEN FALSE
    ELSE IF a = << >> THEN TRUE
    ELSE IF Head(a) < Head(b) THEN TRUE
    ELSE IF Head(a) > Head(b) THEN FALSE
    ELSE StrLess(Tail(a), Tail(b))

\* The elements of S, smallest first.
RECURSIVE Ascending(_)
Ascending(S) ==
    IF S = {} THEN << >>
    ELSE LET m == CHOOSE x \in S : \A y \in S \ {x} : StrLess(x, y)
         IN  << m >> \o Ascending(S \ {m})

\* The elements of S, largest first.
RECURSIVE Descending(_)
Descending(S) ==
    IF S = {} THEN << >>
    ELSE LET m == CHOOSE x \in S : \A y \in S \ {x} : StrLess(y, x)
         IN  << m >> \o Descending(S \ {m})

\* Mutant of sorted: the union is walked in the wrong order.
sorted_reversed(S) == Descending(S)

\* sorted(S)
sorted(S) == Ascending(S)

\* ------------------------------------------------------------------ files

\* A file on disk: its modification time and its content; st_size is the
\* length of the content.
Bytes == {0, 1}
Mtimes == {1, 2}
Contents == UNION { [1..n -> Bytes] : n \in 0..MaxLen }
Files == [mtime : Mtimes, content : Contents]
st_size(f) == Len(f.content)

\* What a worker may find on disk when it reads through a handle during a
\* run: a handle is no snapshot, stat() and the content are read at
\* comparison time.  Enough for every outcome of a pair comparison
\* (older/newer/same time, smaller/larger/same size, same/different content).
DiskFiles == [mtime : Mtimes, content : { << >>, <<0>>, <<1>> }]

\* The files of trees that do not change during a run: an old empty file
\* and two newer files of the same size and different contents.
StableFiles ==
    { [mtime |-> 1, content |-> << >>],
      [mtime |-> 2, content |-> <<0>>],
      [mtime |-> 2, content |-> <<1>>] }

\* A file handle: the root (1 or 2) joined with the relative path.
full_path(root, relative_path) == << root, relative_path >>

\* ----------------------------------------------------------- result model

FileComparisonResult(relative_path, classification) ==
    [relative_path |-> relative_path,
     classification |-> classification,
     modified_time_comparison |-> None,
     size_comparison |-> None,
     is_content_same |-> None]

is_identical(r) ==
    /\ r.classification = IN_BOTH
    /\ r.modified_time_comparison = Some(0)
    /\ r.size_comparison = Some(0)
    /\ r.is_content_same = Some(TRUE)

ComparisonSummary ==
    [in_both |-> 0, only_in_dir1 |-> 0, only_in_dir2 |-> 0,
     dir1_newer |-> 0, dir2_newer |-> 0,
     same_time_diff_size |-> 0, same_time_size_diff_content |-> 0]

\* Mutant of update: the Both sub-counters tested independently (if, not
\* elif), so one record can count under several.
update_independent(s, result) ==
    IF result.classification = ONLY_IN_DIR1
    THEN [s EXCEPT !.only_in_dir1 = @ + 1]
    ELSE IF result.classification = ONLY_IN_DIR2
    THEN [s EXCEPT !.only_in_dir2 = @ + 1]
    ELSE IF result.classification = IN_BOTH
    THEN [s EXCEPT
            !.in_both = @ + 1,
            !.dir1_newer =
                IF result.modified_time_comparison = Some(1) THEN @ + 1 ELSE @,
            !.dir2_newer =
                IF result.modified_time_comparison = Some(-1) THEN @ + 1 ELSE @,
            !.same_time_diff_size =
                IF result.size_comparison # Some(0) THEN @ + 1 ELSE @,
            !.same_time_size_diff_content =
                IF result.is_content_same = Some(FALSE) THEN @ + 1 ELSE @]
    ELSE s

\* Mutant of update: the size is checked before the modification time.
update_size_first(s, result) ==
    IF result.classification = ONLY_IN_DIR1
    THEN [s EXCEPT !.only_in_dir1 = @ + 1]
    ELSE IF result.classification = ONLY_IN_DIR2
    THEN [s EXCEPT !.only_in_dir2 = @ + 1]
    ELSE IF result.classification = IN_BOTH
    THEN LET b == [s EXCEPT !.in_both = @ + 1]
         IN  IF result.size_comparison # Some(0)
             THEN [b EXCEPT !.same_time_diff_size = @ + 1]
             ELSE IF result.modified_time_comparison = Some(1)
             THEN [b EXCEPT !.dir1_newer = @ + 1]
             ELSE IF result.modified_time_comparison = Some(-1)
             THEN [b EXCEPT !.dir2_newer = @ + 1]
             ELSE IF result.is_content_same = Some(FALSE)
             THEN [b EXCEPT !.same_time_size_diff_content = @ + 1]
             ELSE b
    ELSE s

\* ComparisonSummary.update: an if/elif chain, mtime checked first.
update(s, result) ==
    IF result.classification = ONLY_IN_DIR1
    THEN [s EXCEPT !.only_in_dir1 = @ + 1]
    ELSE IF result.classification = ONLY_IN_DIR2
    THEN [s EXCEPT !.only_in_dir2 = @ + 1]
    ELSE IF result.classification = IN_BOTH
    THEN LET b == [s EXCEPT !.in_both = @ + 1]
         IN  IF result.modified_time_comparison = Some(1)
             THEN [b EXCEPT !.dir1_newer = @ + 1]
             ELSE IF result.modified_time_comparison = Some(-1)
             THEN [b EXCEPT !.dir2_newer = @ + 1]
             ELSE IF result.size_comparison # Some(0)
             THEN [b EXCEPT !.same_time_diff_size = @ + 1]
             ELSE IF result.is_content_same = Some(FALSE)
             THEN [b EXCEPT !.same_time_size_diff_content = @ + 1]
             ELSE b
    ELSE s

\* -------------------------------------------------------- pair comparator

\* Mutant of _compare: the two signs exchanged.
_compare_flipped(value1, value2) ==
    IF value1 > value2 THEN -1
    ELSE IF value2 > value1 THEN 1
    ELSE 0

\* DirectoryComparer._compare
_compare(value1, value2) ==
    IF value1 > value2 THEN 1
    ELSE IF value2 > value1 THEN -1
    ELSE 0

\* filecmp._do_cmp: the two contents compared byte for byte.
RECURSIVE _do_cmp(_, _)
_do_cmp(c1, c2) ==
    IF c1 = << >> /\ c2 = << >> THEN TRUE
    ELSE IF c1 = << >> \/ c2 = << >> THEN FALSE
    ELSE IF Head(c1) # Head(c2) THEN FALSE
    ELSE _do_cmp(Tail(c1), Tail(c2))

\* Mutant of _compare_file_pair: the contents compared whatever the sizes.
_compare_file_pair_always_cmp(rel_path, file1, file2) ==
    LET result == FileComparisonResult(rel_path, IN_BOTH)
    IN  [result |-> [result EXCEPT
            !.modified_time_comparison =
                Some(_compare(file1.mtime, file2.mtime)),
            !.size_comparison =
                Some(_compare(st_size(file1), st_size(file2))),
            !.is_content_same =
                Some(_do_cmp(file1.content, file2.content))],
         content_read |-> TRUE]

\* DirectoryComparer._compare_file_pair on the two files its handles name:
\* the record it returns, and whether the contents were read.
_compare_file_pair(rel_path, file1, file2) ==
    LET result == FileComparisonResult(rel_path, IN_BOTH)
        mt == _compare(file1.mtime, file2.mtime)
        sz == _compare(st_size(file1), st_size(file2))
        r2 == [result EXCEPT !.modified_time_comparison = Some(mt),
                             !.size_comparison = Some(sz)]
    IN  IF sz = 0
        THEN [result |-> [r2 EXCEPT !.is_content_same =
                              Some(_do_cmp(file1.content, file2.content))],
              content_read |-> TRUE]
        ELSE [result |-> r2, content_read |-> FALSE]

\* ------------------------------------------------------------------ state

VARIABLES
    tree1, tree2,          \* the relative paths of the regular files under each root
    root1, root2,          \* what each root is: "dir", "unreadable" or "missing"
    disk,                  \* the files when the trees do not change; None when they may
    max_workers,           \* the size of the worker pool
    executor,              \* "none", "open" or "shutdown"
    shutdown_calls,        \* how many times executor.shutdown was called
    futures,               \* every future submitted, in submission order
    pc,                    \* where the main thread is
    exc,                   \* the exception in flight in the main thread
    dir1_files, dir2_files,\* __iter__'s locals: the two scanned mappings
    all_files,             \* __iter__'s local: the sorted union
    idx,                   \* the position of the for loop in all_files
    pending_queue,         \* the deque of ready records and futures
    stop_at_running_task,  \* yield_from_queue's parameter
    first_item,            \* the future popped and waited on
    yielded,               \* the records handed to the consumer, in order
    summary,               \* main's ComparisonSummary
    stdout,                \* what main printed
    probe                  \* the last pair comparison of the comparator check

vars == << tree1, tree2, root1, root2, disk, max_workers, executor,
           shutdown_calls, futures, pc, exc, dir1_files, dir2_files, all_files,
           idx, pending_queue, stop_at_running_task, first_item, yielded, summary, stdout, probe >>

\* The locals of the generator.
iter_vars == << dir1_files, dir2_files, all_files, idx, pending_queue,
                stop_at_running_task, first_item >>

\* What the consumer holds.
consumer_vars == << yielded, summary, stdout >>

env_vars == << tree1, tree2, root1, root2, disk, max_workers, probe >>

\* The pool and the calls of its shutdown.
pool_vars == << executor, shutdown_calls >>

\* --------------------------------------------------------------- executor

\* What Executor.submit appends: a future, PENDING until a worker takes it.
\* overtook records history only: the comparison finished while one
\* submitted before it had not.
Future(fn, arg) ==
    [fn |-> fn, arg |-> arg, state |-> "PENDING",
     result |-> None, exception |-> FALSE, overtook |-> FALSE]

\* Future.running() and Future.done()
running(f) == f.state = "RUNNING"
done(f) == f.state \in {"FINISHED", "CANCELLED"}

Running == { i \in DOMAIN futures : running(futures[i]) }
Pending == { i \in DOMAIN futures : futures[i].state = "PENDING" }

\* Mutant of cancel_futures: shutdown without cancel_futures=True.
cancel_futures_none(fs) == fs

\* ThreadPoolExecutor.shutdown(cancel_futures=True): every work item still
\* in the queue is cancelled; a running one is left alone.
cancel_futures(fs) ==
    [i \in DOMAIN fs |->
        IF fs[i].state = "PENDING" THEN [fs[i] EXCEPT !.state = "CANCELLED"]
        ELSE fs[i]]

\* What a root can be: a directory that can be listed, a directory that
\* cannot (no read permission), or no directory at all.
RootKinds == { "dir", "unreadable", "missing" }

\* The trees of files that can be under a root of that kind.
TreesUnder(kind) == IF kind = "missing" THEN { {} } ELSE SUBSET PathNames

\* Path.is_dir()
is_dir(kind) == kind \in { "dir", "unreadable" }

\* The files os.walk(root) visits.  onerror is None, so the error of
\* scandir on a root that cannot be listed is ignored and nothing is
\* visited.
os_walk(kind, tree) == IF kind = "dir" THEN tree ELSE {}

\* The loop over os.walk: the mapping from relative path to full path.
_get_files_in_directory(root, tree) ==
    [relative_path \in tree |-> full_path(root, relative_path)]

\* Mutant of union_keys: the keys of the right mapping forgotten.
union_keys_left(d1, d2) == DOMAIN d1

\* set(dir1_files.keys()) | set(dir2_files.keys())
union_keys(d1, d2) == DOMAIN d1 \cup DOMAIN d2

\* Mutant of slot_for: the two one-sided classifications exchanged.
slot_for_swapped(rel_path, in_dir1, in_dir2, fid) ==
    IF in_dir1 /\ ~in_dir2
    THEN << "result", FileComparisonResult(rel_path, ONLY_IN_DIR2) >>
    ELSE IF ~in_dir1 /\ in_dir2
    THEN << "result", FileComparisonResult(rel_path, ONLY_IN_DIR1) >>
    ELSE << "future", fid >>

\* The slot the loop body appends for rel_path; fid is the future that
\* executor.submit returns when the path is in both mappings.
slot_for(rel_path, in_dir1, in_dir2, fid) ==
    IF in_dir1 /\ ~in_dir2
    THEN << "result", FileComparisonResult(rel_path, ONLY_IN_DIR1) >>
    ELSE IF ~in_dir1 /\ in_dir2
    THEN << "result", FileComparisonResult(rel_path, ONLY_IN_DIR2) >>
    ELSE << "future", fid >>

\* ------------------------------------------------------------------- Init

\* A run of main has not entered its with block yet.
NotStarted ==
    /\ executor = "none"
    /\ shutdown_calls = 0
    /\ futures = << >>
    /\ pc = "main"
    /\ exc = "none"
    /\ dir1_files = << >>
    /\ dir2_files = << >>
    /\ all_files = << >>
    /\ idx = 0
    /\ pending_queue = << >>
    /\ stop_at_running_task = FALSE
    /\ first_item = 0
    /\ yielded = << >>
    /\ summary = ComparisonSummary
    /\ stdout = << >>
    /\ probe = None

\* main is called on any two roots, with any pool size; the files may
\* change while the run reads them.
Init ==
    /\ root1 \in RootKinds
    /\ root2 \in RootKinds
    /\ tree1 \in TreesUnder(root1)
    /\ tree2 \in TreesUnder(root2)
    /\ disk = None
    /\ max_workers \in 1..MaxWorkers
    /\ NotStarted

\* ------------------------------------------------------------ main thread

\* Mutant of Consume: the continue of an identical record placed before
\* summary.update.
Consume_skip_identical(result) ==
    /\ yielded' = Append(yielded, result)
    /\ summary' = IF is_identical(result) THEN summary
                  ELSE update(summary, result)
    /\ stdout' = IF is_identical(result) THEN stdout
                 ELSE Append(stdout, << "result", result.relative_path >>)

\* main's loop body: the record feeds the summary, and is printed unless
\* the two files are identical.
Consume(result) ==
    /\ yielded' = Append(yielded, result)
    /\ summary' = update(summary, result)
    /\ stdout' = IF is_identical(result) THEN stdout
                 ELSE Append(stdout, << "result", result.relative_path >>)

\* main's checks of the two roots: on one that is no directory the error
\* is printed and main returns, before the timer is started and the try
\* block entered.
PreCheck ==
    /\ pc = "main"
    /\ IF ~is_dir(root1)
       THEN /\ stdout' = Append(stdout, << "error", 1 >>)
            /\ pc' = "returned"
       ELSE IF ~is_dir(root2)
       THEN /\ stdout' = Append(stdout, << "error", 2 >>)
            /\ pc' = "returned"
       ELSE /\ stdout' = stdout
            /\ pc' = "with"
    /\ UNCHANGED << pool_vars, futures, exc, iter_vars, yielded, summary,
                    env_vars >>

\* DirectoryComparer.__enter__
Enter ==
    /\ pc = "with"
    /\ executor' = "open"
    /\ pc' = "iter"
    /\ UNCHANGED << shutdown_calls, futures, exc, iter_vars, consumer_vars, env_vars >>

\* __iter__: both scans are submitted.
SubmitScans ==
    /\ pc = "iter"
    /\ futures' = futures \o << Future("scan", 1), Future("scan", 2) >>
    /\ pc' = "scan1"
    /\ UNCHANGED << pool_vars, exc, iter_vars, consumer_vars, env_vars >>

\* Mutant of AwaitScan1: the walk is entered with the first mapping alone,
\* the result of the second scan is not awaited.
AwaitScan1_then_walk ==
    /\ pc = "scan1"
    /\ futures[1].state = "FINISHED"
    /\ dir1_files' = futures[1].result[1]
    /\ all_files' = sorted(union_keys(dir1_files', dir2_files))
    /\ idx' = 1
    /\ pc' = "for"
    /\ UNCHANGED << pool_vars, futures, exc, dir2_files,
                    pending_queue, stop_at_running_task, first_item,
                    consumer_vars, env_vars >>

\* dir1_files = future1.result()
AwaitScan1 ==
    /\ pc = "scan1"
    /\ futures[1].state = "FINISHED"
    /\ dir1_files' = futures[1].result[1]
    /\ pc' = "scan2"
    /\ UNCHANGED << pool_vars, futures, exc, dir2_files, all_files, idx,
                    pending_queue, stop_at_running_task, first_item,
                    consumer_vars, env_vars >>

\* dir2_files = future2.result(); all_files = sorted(union); the for loop
\* is entered.
AwaitScan2 ==
    /\ pc = "scan2"
    /\ futures[2].state = "FINISHED"
    /\ dir2_files' = futures[2].result[1]
    /\ all_files' = sorted(union_keys(dir1_files, dir2_files'))
    /\ pending_queue' = << >>
    /\ idx' = 1
    /\ pc' = "for"
    /\ UNCHANGED << pool_vars, futures, exc, dir1_files,
                    stop_at_running_task, first_item, consumer_vars, env_vars >>

\* Mutant of Classify: appendleft in place of append.
Classify_appendleft ==
    /\ pc = "for"
    /\ idx <= Len(all_files)
    /\ LET rel_path == all_files[idx]
           in_dir1 == rel_path \in DOMAIN dir1_files
           in_dir2 == rel_path \in DOMAIN dir2_files
           slot == slot_for(rel_path, in_dir1, in_dir2, Len(futures) + 1)
       IN  /\ futures' = IF slot[1] = "future"
                         THEN Append(futures, Future("pair", rel_path))
                         ELSE futures
           /\ pending_queue' = << slot >> \o pending_queue
    /\ stop_at_running_task' = TRUE
    /\ pc' = "queue"
    /\ UNCHANGED << pool_vars, exc, dir1_files, dir2_files, all_files, idx,
                    first_item, consumer_vars, env_vars >>

\* The loop body up to the append: the path is classified, and a pair
\* comparison is submitted when both mappings hold it.
Classify ==
    /\ pc = "for"
    /\ idx <= Len(all_files)
    /\ LET rel_path == all_files[idx]
           in_dir1 == rel_path \in DOMAIN dir1_files
           in_dir2 == rel_path \in DOMAIN dir2_files
           slot == slot_for(rel_path, in_dir1, in_dir2, Len(futures) + 1)
       IN  /\ futures' = IF slot[1] = "future"
                         THEN Append(futures, Future("pair", rel_path))
                         ELSE futures
           /\ pending_queue' = Append(pending_queue, slot)
    /\ stop_at_running_task' = TRUE
    /\ pc' = "queue"
    /\ UNCHANGED << pool_vars, exc, dir1_files, dir2_files, all_files, idx,
                    first_item, consumer_vars, env_vars >>

\* The loop is over: the final yield_from_queue(pending_queue).
EndFor ==
    /\ pc = "for"
    /\ idx > Len(all_files)
    /\ stop_at_running_task' = FALSE
    /\ pc' = "queue"
    /\ UNCHANGED << pool_vars, futures, exc, dir1_files, dir2_files, all_files,
                    idx, pending_queue, first_item, consumer_vars, env_vars >>

\* yield_from_queue returns: the queue is empty.  After the loop body the
\* loop goes on; after the final call the generator is exhausted.
QueueEmpty ==
    /\ pc = "queue"
    /\ pending_queue = << >>
    /\ IF stop_at_running_task
       THEN /\ idx' = idx + 1
            /\ pc' = "for"
       ELSE /\ idx' = idx
            /\ pc' = "exit"
    /\ UNCHANGED << pool_vars, futures, exc, dir1_files, dir2_files, all_files,
                    pending_queue, stop_at_running_task, first_item,
                    consumer_vars, env_vars >>

\* The head is a ready record: it is popped and yielded.
YieldRecord ==
    /\ pc = "queue"
    /\ pending_queue # << >>
    /\ Head(pending_queue)[1] = "result"
    /\ pending_queue' = Tail(pending_queue)
    /\ Consume(Head(pending_queue)[2])
    /\ UNCHANGED << pool_vars, futures, pc, exc, dir1_files, dir2_files,
                    all_files, idx, stop_at_running_task, first_item, env_vars >>

\* The test of line 219: stop_at_running_task and first_item.running().
stop_here(stop, f) == stop /\ running(f)

\* The head is a future and the test of line 219 holds: break.
BreakAtRunning ==
    /\ pc = "queue"
    /\ pending_queue # << >>
    /\ Head(pending_queue)[1] = "future"
    /\ stop_here(stop_at_running_task, futures[Head(pending_queue)[2]])
    /\ idx' = idx + 1
    /\ pc' = "for"
    /\ UNCHANGED << pool_vars, futures, exc, dir1_files, dir2_files, all_files,
                    pending_queue, stop_at_running_task, first_item,
                    consumer_vars, env_vars >>

\* Mutant of PopFuture: a comparison that has finished is taken from the
\* queue wherever it is (completion order), the head only when none has.
PopFuture_first_done ==
    /\ pc = "queue"
    /\ pending_queue # << >>
    /\ Head(pending_queue)[1] = "future"
    /\ ~stop_here(stop_at_running_task, futures[Head(pending_queue)[2]])
    /\ \E k \in DOMAIN pending_queue :
          /\ \/ k = 1
             \/ /\ pending_queue[k][1] = "future"
                /\ done(futures[pending_queue[k][2]])
          /\ pending_queue' =
                SubSeq(pending_queue, 1, k - 1)
                    \o SubSeq(pending_queue, k + 1, Len(pending_queue))
          /\ first_item' = pending_queue[k][2]
    /\ pc' = "result"
    /\ UNCHANGED << pool_vars, futures, exc, dir1_files, dir2_files, all_files,
                    idx, stop_at_running_task, consumer_vars, env_vars >>

\* The head is a future and the test of line 219 fails: it is popped, and
\* first_item.result() is called.
PopFuture ==
    /\ pc = "queue"
    /\ pending_queue # << >>
    /\ Head(pending_queue)[1] = "future"
    /\ ~stop_here(stop_at_running_task, futures[Head(pending_queue)[2]])
    /\ pending_queue' = Tail(pending_queue)
    /\ first_item' = Head(pending_queue)[2]
    /\ pc' = "result"
    /\ UNCHANGED << pool_vars, futures, exc, dir1_files, dir2_files, all_files,
                    idx, stop_at_running_task, consumer_vars, env_vars >>

\* first_item.result() returns the record, which is yielded.
ResultReturns ==
    /\ pc = "result"
    /\ futures[first_item].state = "FINISHED"
    /\ ~futures[first_item].exception
    /\ Consume(futures[first_item].result[1])
    /\ pc' = "queue"
    /\ UNCHANGED << pool_vars, futures, exc, iter_vars, env_vars >>

\* first_item.result() re-raises the comparison's exception, which leaves
\* the generator, the for loop of main and the with block.
ResultRaises ==
    /\ pc = "result"
    /\ futures[first_item].state = "FINISHED"
    /\ futures[first_item].exception
    /\ exc' = "OSError"
    /\ pc' = "exit"
    /\ UNCHANGED << pool_vars, futures, iter_vars, consumer_vars, env_vars >>

\* Where the main thread is inside the with block, iterating.
Iterating == pc \in {"iter", "scan1", "scan2", "for", "queue", "result"}

\* Ctrl-C while the consumer is iterating: KeyboardInterrupt is raised in
\* the main thread and leaves the with block.
Interrupt ==
    /\ Iterating
    /\ exc' = "KeyboardInterrupt"
    /\ pc' = "exit"
    /\ UNCHANGED << pool_vars, futures, iter_vars, consumer_vars, env_vars >>

\* Mutant of Exit: the pool is shut down on KeyboardInterrupt only.
Exit_interrupt_only ==
    /\ pc = "exit"
    /\ IF exc = "KeyboardInterrupt"
       THEN /\ executor' = "shutdown"
            /\ shutdown_calls' = shutdown_calls + 1
            /\ futures' = cancel_futures(futures)
       ELSE UNCHANGED << pool_vars, futures >>
    /\ pc' = "after"
    /\ UNCHANGED << exc, iter_vars, consumer_vars, env_vars >>

\* DirectoryComparer.__exit__
Exit ==
    /\ pc = "exit"
    /\ executor' = "shutdown"
    /\ shutdown_calls' = shutdown_calls + 1
    /\ IF exc = "KeyboardInterrupt"
       THEN /\ futures' = cancel_futures(futures)
            /\ pc' = "after"
       ELSE /\ futures' = futures
            /\ pc' = "join"
    /\ UNCHANGED << exc, iter_vars, consumer_vars, env_vars >>

\* Mutant of Join: shutdown(wait=False), the workers are not joined.
Join_no_wait ==
    /\ pc = "join"
    /\ pc' = "after"
    /\ UNCHANGED << pool_vars, futures, exc, iter_vars, consumer_vars, env_vars >>

\* shutdown(wait=True) returns once the workers have emptied the queue.
Join ==
    /\ pc = "join"
    /\ Running = {} /\ Pending = {}
    /\ pc' = "after"
    /\ UNCHANGED << pool_vars, futures, exc, iter_vars, consumer_vars, env_vars >>

\* After the with block: the summary on normal completion, nothing on
\* KeyboardInterrupt (except: pass) or on any other exception.
AfterWith ==
    /\ pc = "after"
    /\ stdout' = IF exc = "none" THEN Append(stdout, << "summary", summary >>)
                 ELSE stdout
    /\ pc' = "finally"
    /\ UNCHANGED << pool_vars, futures, exc, iter_vars, yielded, summary, env_vars >>

\* Mutant of Finally: the elapsed time printed at the end of the try
\* block, not in a finally clause.
Finally_after_try ==
    /\ pc = "finally"
    /\ stdout' = IF exc = "none" THEN Append(stdout, << "finished" >>)
                 ELSE stdout
    /\ pc' = "done"
    /\ UNCHANGED << pool_vars, futures, exc, iter_vars, yielded, summary, env_vars >>

\* finally: the elapsed time is printed.
Finally ==
    /\ pc = "finally"
    /\ stdout' = Append(stdout, << "finished" >>)
    /\ pc' = "done"
    /\ UNCHANGED << pool_vars, futures, exc, iter_vars, yielded, summary, env_vars >>

\* ---------------------------------------------------------------- workers

\* Mutant of has_idle_worker: one worker too few.
has_idle_worker_one_less(n_running, workers) == n_running < workers - 1

\* The pool runs at most max_workers tasks at a time.
has_idle_worker(n_running, workers) == n_running < workers

\* A worker thread takes the oldest work item of the queue.
StartTask(i) ==
    /\ futures[i].state = "PENDING"
    /\ \A j \in Pending : i <= j
    /\ has_idle_worker(Cardinality(Running), max_workers)
    /\ futures' = [futures EXCEPT ![i].state = "RUNNING"]
    /\ UNCHANGED << pool_vars, pc, exc, iter_vars, consumer_vars, env_vars >>

\* _get_files_in_directory returns.
FinishScan(i) ==
    /\ running(futures[i])
    /\ futures[i].fn = "scan"
    /\ futures' = [futures EXCEPT
          ![i].state = "FINISHED",
          ![i].result = Some(_get_files_in_directory(futures[i].arg,
                              IF futures[i].arg = 1 THEN os_walk(root1, tree1)
                              ELSE os_walk(root2, tree2)))]
    /\ UNCHANGED << pool_vars, pc, exc, iter_vars, consumer_vars, env_vars >>

\* Mutant of FinishPair: the worker stores the record in the pending queue
\* itself, in place of the slot of its future.
FinishPair_writes_queue(i) ==
    /\ running(futures[i])
    /\ futures[i].fn = "pair"
    /\ \E file1, file2 \in DiskFiles :
          LET r == _compare_file_pair(futures[i].arg, file1, file2).result
          IN  /\ futures' = [futures EXCEPT ![i].state = "FINISHED",
                                            ![i].result = Some(r)]
              /\ pending_queue' =
                    [k \in DOMAIN pending_queue |->
                        IF /\ pending_queue[k][1] = "future"
                           /\ pending_queue[k][2] = i
                        THEN << "result", r >>
                        ELSE pending_queue[k]]
    /\ UNCHANGED << pool_vars, pc, exc, dir1_files, dir2_files, all_files, idx,
                    stop_at_running_task, first_item, consumer_vars, env_vars >>

\* _compare_file_pair returns, having read the two files as they are now.
FinishPair(i) ==
    /\ running(futures[i])
    /\ futures[i].fn = "pair"
    /\ \E file1, file2 \in DiskFiles :
          futures' = [futures EXCEPT
              ![i].state = "FINISHED",
              ![i].result =
                  Some(_compare_file_pair(futures[i].arg, file1, file2).result),
              ![i].overtook = \E j \in 1..(i - 1) :
                                  futures[j].fn = "pair" /\ ~done(futures[j])]
    /\ UNCHANGED << pool_vars, pc, exc, iter_vars, consumer_vars, env_vars >>

\* _compare_file_pair raises: stat() or filecmp.cmp fails on a file that
\* vanished or became unreadable after the scan.
FailPair(i) ==
    /\ running(futures[i])
    /\ futures[i].fn = "pair"
    /\ futures' = [futures EXCEPT ![i].state = "FINISHED",
                                  ![i].exception = TRUE]
    /\ UNCHANGED << pool_vars, pc, exc, iter_vars, consumer_vars, env_vars >>

Worker ==
    \/ \E i \in DOMAIN futures : StartTask(i)
    \/ \E i \in DOMAIN futures : FinishScan(i)
    \/ \E i \in DOMAIN futures : FinishPair(i)
    \/ \E i \in DOMAIN futures : FailPair(i)

MainThread ==
    \/ PreCheck \/ Enter \/ SubmitScans \/ AwaitScan1 \/ AwaitScan2
    \/ Classify \/ EndFor
    \/ QueueEmpty \/ YieldRecord \/ BreakAtRunning \/ PopFuture
    \/ ResultReturns \/ ResultRaises
    \/ Exit \/ Join \/ AfterWith \/ Finally

Next == MainThread \/ Worker \/ Interrupt

Spec == Init /\ [][Next]_vars

\* The run when nobody interrupts it and the consumer keeps pulling: the
\* main thread and the workers of the pool all keep running.
LiveNext == MainThread \/ Worker

LiveSpec ==
    /\ Init
    /\ [][LiveNext]_vars
    /\ WF_vars(MainThread)
    /\ WF_vars(Worker)

\* ---------------------------------------------- trees that do not change

\* Every handle the two scans return.
Handles ==
    { full_path(1, p) : p \in os_walk(root1, tree1) }
        \cup { full_path(2, p) : p \in os_walk(root2, tree2) }

\* main is called on two readable trees whose files stay as they are.
StableInit ==
    /\ root1 = "dir"
    /\ root2 = "dir"
    /\ tree1 \in SUBSET PathNames
    /\ tree2 \in SUBSET PathNames
    /\ disk \in [Handles -> StableFiles]
    /\ max_workers \in 1..MaxWorkers
    /\ NotStarted

\* _compare_file_pair returns, having read the two files through their
\* handles.
FinishPairStable(i) ==
    /\ running(futures[i])
    /\ futures[i].fn = "pair"
    /\ futures' = [futures EXCEPT
          ![i].state = "FINISHED",
          ![i].result =
              Some(_compare_file_pair(futures[i].arg,
                                      disk[full_path(1, futures[i].arg)],
                                      disk[full_path(2, futures[i].arg)]).result),
          ![i].overtook = \E j \in 1..(i - 1) :
                              futures[j].fn = "pair" /\ ~done(futures[j])]
    /\ UNCHANGED << pool_vars, pc, exc, iter_vars, consumer_vars, env_vars >>

\* The run to completion: nobody interrupts, and no comparison fails since
\* no file vanishes.
StableNext ==
    \/ PreCheck \/ Enter \/ SubmitScans \/ AwaitScan1 \/ AwaitScan2
    \/ Classify \/ EndFor
    \/ QueueEmpty \/ YieldRecord \/ BreakAtRunning \/ PopFuture
    \/ ResultReturns
    \/ Exit \/ Join \/ AfterWith \/ Finally
    \/ \E i \in DOMAIN futures : StartTask(i)
    \/ \E i \in DOMAIN futures : FinishScan(i)
    \/ \E i \in DOMAIN futures : FinishPairStable(i)

StableSpec == StableInit /\ [][StableNext]_vars

\* ------------------------------------------- the pair comparator, alone

\* No run of the engine: only the function under check is applied.
NoRun ==
    /\ tree1 = {} /\ tree2 = {}
    /\ root1 = "dir" /\ root2 = "dir"
    /\ disk = None
    /\ max_workers = 1
    /\ executor = "none"
    /\ shutdown_calls = 0
    /\ futures = << >>
    /\ pc = "unit"
    /\ exc = "none"
    /\ dir1_files = << >> /\ dir2_files = << >>
    /\ all_files = << >>
    /\ idx = 0
    /\ pending_queue = << >>
    /\ stop_at_running_task = FALSE
    /\ first_item = 0

\* The relative path of the records of the two function checks.
UnitPath == CHOOSE p \in PathNames : \A q \in PathNames \ {p} : StrLess(p, q)

\* Any two files of at most MaxLen bytes.
PairInit ==
    /\ NoRun
    /\ yielded = << >>
    /\ summary = ComparisonSummary
    /\ stdout = << >>
    /\ probe \in [file1 : Files, file2 : Files, out : {None}]

\* _compare_file_pair is applied to the two files.
ComparePair ==
    /\ pc = "unit"
    /\ probe # None
    /\ probe.out = None
    /\ probe' = [probe EXCEPT
                    !.out = Some(_compare_file_pair(UnitPath, probe.file1,
                                                    probe.file2))]
    /\ UNCHANGED << tree1, tree2, root1, root2, disk, max_workers, pool_vars,
                    futures, pc, exc, iter_vars, consumer_vars >>

PairSpec == PairInit /\ [][ComparePair]_vars

\* ------------------------------------------ the summary accumulator, alone

\* The records the engine can yield for one path: a one-sided record, or
\* what _compare_file_pair returns.
Records ==
    { FileComparisonResult(UnitPath, c) : c \in {ONLY_IN_DIR1, ONLY_IN_DIR2} }
    \cup { _compare_file_pair(UnitPath, f1, f2).result : f1, f2 \in DiskFiles }

SummaryInit ==
    /\ NoRun
    /\ yielded = << >>
    /\ summary = ComparisonSummary
    /\ stdout = << >>
    /\ probe = None

\* main's loop body on any record, in any order.
UpdateSummary ==
    /\ pc = "unit"
    /\ Len(yielded) < MaxUpdates
    /\ \E r \in Records : Consume(r)
    /\ UNCHANGED << env_vars, pool_vars, futures, pc, exc, iter_vars >>

SummarySpec == SummaryInit /\ [][UpdateSummary]_vars

\* ----------------------------------------------------------------- claims

YieldedPaths == { yielded[i].relative_path : i \in DOMAIN yielded }
\* The keys of the two scanned mappings.
Keys1 == os_walk(root1, tree1)
Keys2 == os_walk(root2, tree2)
Union == Keys1 \cup Keys2
InBoth == Keys1 \cap Keys2
PairFutures == { i \in DOMAIN futures : futures[i].fn = "pair" }

\* The generator was exhausted: the iteration completed without fault.
Completed == exc = "none" /\ pc \in {"exit", "join", "after", "finally", "done"}

\* C1: the records handed to the consumer are strictly increasing in
\* relative path, whatever the worker count and the order in which the
\* comparisons complete.
C1_SortedOrder ==
    \A i, j \in DOMAIN yielded :
        i < j => StrLess(yielded[i].relative_path, yielded[j].relative_path)

\* A complete run in which a later comparison finished before an earlier
\* one, and both records were yielded.
C1_Witness ==
    /\ pc = "done" /\ exc = "none"
    /\ Len(yielded) >= 2
    /\ \E i \in PairFutures : futures[i].overtook

\* C2: no relative path is emitted twice or from outside the union at any
\* point, and when the iteration completes without fault the paths emitted
\* are exactly the union of the keys of the two mappings.
C2_ExactUnion ==
    /\ \A i, j \in DOMAIN yielded :
          i # j => yielded[i].relative_path # yielded[j].relative_path
    /\ YieldedPaths \subseteq Union
    /\ Completed => YieldedPaths = Union

\* A complete run over trees with a left-only, a right-only and a shared
\* path.
C2_Witness ==
    /\ Completed
    /\ Keys1 \ Keys2 # {} /\ Keys2 \ Keys1 # {} /\ InBoth # {}
    /\ Len(yielded) = Cardinality(Union)

\* C3 (as claimed): in the drain that follows an append
\* (stop_at_running_task = True) the main thread never waits on a
\* comparison that has not finished.
C3_NeverWaitsInWalk ==
    ~( /\ pc = "result"
       /\ stop_at_running_task
       /\ ~done(futures[first_item]) )

\* C4 (as claimed): a comparison that fails does not abort the stream; a
\* run that is not interrupted ends with every path of the union emitted.
C4_FaultIsolated ==
    (pc = "done" /\ exc # "KeyboardInterrupt") =>
        /\ exc = "none"
        /\ YieldedPaths = Union

\* C5: when nobody interrupts, every task the pool holds is eventually run
\* and the consumer keeps pulling, the stream of a run that enters the with
\* block ends; when it ends without fault the final drain has emptied the
\* pending queue and every path was emitted.
C5_StreamEnds ==
    pc = "with" ~>
        ( /\ pc = "done"
          /\ exc = "none" => (pending_queue = << >> /\ YieldedPaths = Union) )

\* A complete run of a pool of one worker that held several comparisons.
C5_Witness ==
    /\ pc = "done" /\ exc = "none"
    /\ max_workers = 1
    /\ Cardinality(PairFutures) >= 2
    /\ pending_queue = << >>

\* The path a slot of the pending queue stands for.
SlotPath(slot) ==
    IF slot[1] = "result" THEN slot[2].relative_path ELSE futures[slot[2]].arg

\* C6: the classification of every record handed to the consumer (and of
\* every slot queued) matches the membership of its path in the two
\* mappings, and a pair comparison is submitted for a path if and only if
\* the path is in both.
C6_Classification ==
    /\ \A i \in DOMAIN yielded :
          LET r == yielded[i]
          IN  /\ r.classification = ONLY_IN_DIR1
                    <=> r.relative_path \in Keys1 \ Keys2
              /\ r.classification = ONLY_IN_DIR2
                    <=> r.relative_path \in Keys2 \ Keys1
              /\ r.classification = IN_BOTH
                    <=> r.relative_path \in InBoth
    /\ \A k \in DOMAIN pending_queue :
          LET slot == pending_queue[k]
          IN  /\ slot[1] = "future" <=> SlotPath(slot) \in InBoth
              /\ slot[1] = "result" =>
                    (slot[2].classification = ONLY_IN_DIR1
                        <=> SlotPath(slot) \in Keys1 \ Keys2)
    /\ \A i \in PairFutures : futures[i].arg \in InBoth
    /\ \A i, j \in PairFutures : i # j => futures[i].arg # futures[j].arg
    /\ Completed => { futures[i].arg : i \in PairFutures } = InBoth

\* A complete run that yielded a record of each classification.
C6_Witness ==
    /\ Completed
    /\ \A c \in {ONLY_IN_DIR1, ONLY_IN_DIR2, IN_BOTH} :
          \E i \in DOMAIN yielded : yielded[i].classification = c

Signs == { Some(-1), Some(0), Some(1) }

\* C7: every record handed to the consumer satisfies the record
\* invariants: Both implies mtime and size comparison set, content_same set
\* if and only if size_comparison = 0, one-sided implies all three unset.
C7_RecordInvariants ==
    \A i \in DOMAIN yielded :
        LET r == yielded[i]
        IN  /\ r.classification = IN_BOTH =>
                  /\ r.modified_time_comparison \in Signs
                  /\ r.size_comparison \in Signs
            /\ r.is_content_same # None <=> r.size_comparison = Some(0)
            /\ r.is_content_same \in {None, Some(TRUE), Some(FALSE)}
            /\ r.classification \in {ONLY_IN_DIR1, ONLY_IN_DIR2} =>
                  /\ r.modified_time_comparison = None
                  /\ r.size_comparison = None
                  /\ r.is_content_same = None

\* The consumer holds a one-sided record, a Both record of equal sizes and
\* a Both record of different sizes.
C7_Witness ==
    /\ \E i \in DOMAIN yielded : yielded[i].classification # IN_BOTH
    /\ \E i \in DOMAIN yielded :
          /\ yielded[i].classification = IN_BOTH
          /\ yielded[i].size_comparison = Some(0)
    /\ \E i \in DOMAIN yielded :
          /\ yielded[i].classification = IN_BOTH
          /\ yielded[i].size_comparison # Some(0)

Sign(x) == IF x > 0 THEN 1 ELSE IF x < 0 THEN -1 ELSE 0

\* C8: _compare_file_pair returns the sign of the mtime difference and the
\* sign of the size difference; the contents are read if and only if the
\* sizes are equal, and content_same is then the equality of the contents.
C8_PairComparator ==
    (probe # None /\ probe.out # None) =>
        LET f1 == probe.file1
            f2 == probe.file2
            out == probe.out[1]
            r == out.result
        IN  /\ r.classification = IN_BOTH
            /\ r.modified_time_comparison = Some(Sign(f1.mtime - f2.mtime))
            /\ r.size_comparison = Some(Sign(Len(f1.content) - Len(f2.content)))
            /\ out.content_read <=> r.size_comparison = Some(0)
            /\ out.content_read => r.is_content_same = Some(f1.content = f2.content)
            /\ ~out.content_read => r.is_content_same = None

\* Two files of the same size that differ in their last byte only, newer
\* on the right, were compared.
C8_Witness ==
    /\ probe # None /\ probe.out # None
    /\ probe.file1.content = <<0, 0>>
    /\ probe.file2.content = <<0, 1>>
    /\ probe.file1.mtime < probe.file2.mtime
    /\ probe.out[1].result.is_content_same = Some(FALSE)

BothYielded == { i \in DOMAIN yielded : yielded[i].classification = IN_BOTH }

SubCounters(s) ==
    s.dir1_newer + s.dir2_newer + s.same_time_diff_size
        + s.same_time_size_diff_content

\* C9 (as claimed): the four Both sub-counters add up to in_both.
C9_SubCountersCoverBoth == summary.in_both = SubCounters(summary)

\* C9 (amended): every Both record is counted in in_both, and in exactly
\* one sub-counter unless it is fully identical, which no sub-counter
\* counts: in_both = the four sub-counters + the identical records.
C9_Partition ==
    /\ summary.in_both = Cardinality(BothYielded)
    /\ SubCounters(summary) =
          Cardinality({ i \in BothYielded : ~is_identical(yielded[i]) })
    /\ summary.in_both =
          SubCounters(summary)
            + Cardinality({ i \in BothYielded : is_identical(yielded[i]) })

\* The accumulator was fed an identical pair, and a pair that differs in
\* both mtime and size.
C9_Witness ==
    /\ \E i \in BothYielded : is_identical(yielded[i])
    /\ \E i \in BothYielded :
          /\ yielded[i].modified_time_comparison # Some(0)
          /\ yielded[i].size_comparison # Some(0)
    /\ summary.in_both = Len(yielded)

HasSummary == \E k \in DOMAIN stdout : stdout[k][1] = "summary"

\* C10: on KeyboardInterrupt while the consumer iterates, __exit__ shuts
\* the pool down without waiting (the main thread never joins the workers),
\* every comparison not yet started is cancelled and never starts, no
\* further record is delivered and the summary is not printed.
C10_Interrupt ==
    /\ [](exc = "KeyboardInterrupt" =>
            /\ pc # "join"
            /\ executor = "shutdown" => Pending = {}
            /\ ~HasSummary)
    /\ [][ /\ exc = "KeyboardInterrupt" => yielded' = yielded
           /\ \A i \in DOMAIN futures :
                 futures[i].state = "CANCELLED" =>
                     futures'[i].state = "CANCELLED" ]_vars

\* An interrupted run is over: a record had been delivered, a comparison in
\* flight is still running, and one that had not started was cancelled.
C10_Witness ==
    /\ exc = "KeyboardInterrupt" /\ pc = "done"
    /\ Len(yielded) >= 1
    /\ \E i \in PairFutures : running(futures[i])
    /\ \E i \in PairFutures : futures[i].state = "CANCELLED"

\* The lines of the elapsed-time report in what main printed.
FinishedLines == { k \in DOMAIN stdout : stdout[k][1] = "finished" }

\* C11 (as claimed): when main is over, whatever the outcome, the
\* elapsed-time report was printed.
C11_AlwaysReported ==
    pc \in {"done", "returned"} => FinishedLines # {}

\* C11 (amended): a run that passed the checks of the two roots ends, on
\* success, on a fault of a comparison and on KeyboardInterrupt alike, with
\* the elapsed-time report as its last line, printed once and not before
\* the end; a run that fails a check of a root prints the error only.
C11_ReportedAfterTry ==
    /\ pc = "done" =>
          /\ exc \in {"none", "OSError", "KeyboardInterrupt"}
          /\ FinishedLines = { Len(stdout) }
    /\ pc # "done" => FinishedLines = {}
    /\ pc = "returned" =>
          /\ ~(is_dir(root1) /\ is_dir(root2))
          /\ Len(stdout) = 1 /\ stdout[1][1] = "error"

\* A run ended by the fault of a comparison, after a record was printed:
\* the report is its last line.
C11_Witness ==
    /\ pc = "done" /\ exc = "OSError"
    /\ Len(stdout) >= 2
    /\ stdout[Len(stdout)][1] = "finished"

\* The main thread has left the with block.
ScopeLeft == pc \in {"join", "after", "finally", "done"}

\* C12: the pool created by __enter__ is shut down by exactly one call of
\* executor.shutdown on every way out of the with block (completion, fault
\* of a comparison, KeyboardInterrupt); it is open only inside the block,
\* and every run that entered the block ends with the pool shut down.
C12_PoolReleased ==
    /\ shutdown_calls <= 1
    /\ executor = "shutdown" <=> shutdown_calls = 1
    /\ executor = "open" <=> (Iterating \/ pc = "exit")
    /\ ScopeLeft => shutdown_calls = 1
    /\ pc = "done" =>
          /\ exc \in {"none", "OSError", "KeyboardInterrupt"}
          /\ executor = "shutdown"

\* The with block was left by the fault of a comparison, with records
\* already delivered, and the pool was shut down.
C12_Witness ==
    /\ pc = "after" /\ exc = "OSError"
    /\ yielded # << >>
    /\ shutdown_calls = 1 /\ executor = "shutdown"

\* C13 (as claimed): when a root is unreadable or not a directory the run
\* is aborted: no pair comparison is submitted, no record is emitted for
\* either tree and no summary is printed.
C13_ScanFaultAborts ==
    (root1 # "dir" \/ root2 # "dir") =>
        /\ PairFutures = {}
        /\ yielded = << >>
        /\ ~HasSummary

\* The record of one path, from the two trees alone.
ExpectedRecord(p) ==
    IF p \notin tree2 THEN FileComparisonResult(p, ONLY_IN_DIR1)
    ELSE IF p \notin tree1 THEN FileComparisonResult(p, ONLY_IN_DIR2)
    ELSE _compare_file_pair(p, disk[full_path(1, p)],
                               disk[full_path(2, p)]).result

\* The records of a run, from the two trees alone: one per path of the
\* union, smallest path first.
Expected ==
    LET paths == Ascending(tree1 \cup tree2)
    IN  [k \in 1..Len(paths) |-> ExpectedRecord(paths[k])]

\* The summary fed the records of records, first to last.
RECURSIVE SummaryOf(_)
SummaryOf(records) ==
    IF records = << >> THEN ComparisonSummary
    ELSE update(SummaryOf(SubSeq(records, 1, Len(records) - 1)),
                records[Len(records)])

\* C14: over trees that do not change, the records delivered and the
\* summary are a function of the two trees alone, whatever the pool size
\* and the order in which the comparisons complete: at any point the
\* records delivered are the first of Expected, a complete run delivered
\* exactly Expected, and the summary printed is the summary of Expected.
\* Any two runs over the same trees therefore agree.
C14_Deterministic ==
    /\ Len(yielded) <= Len(Expected)
    /\ \A k \in DOMAIN yielded : yielded[k] = Expected[k]
    /\ Completed => yielded = Expected
    /\ \A k \in DOMAIN stdout :
          stdout[k][1] = "summary" => stdout[k][2] = SummaryOf(Expected)
    /\ pc = "done" => HasSummary

\* A complete run of a pool of two over three shared paths, in which a
\* later comparison finished before an earlier one and the pairs differ.
C14_Witness ==
    /\ pc = "done"
    /\ max_workers = 2
    /\ Cardinality(PairFutures) = 3
    /\ \E i \in PairFutures : futures[i].overtook
    /\ \E i, j \in DOMAIN yielded :
          yielded[i].modified_time_comparison
              # yielded[j].modified_time_comparison
    /\ HasSummary

IsResultLine(line) == line[1] = "result"
NotIdentical(r) == ~is_identical(r)

\* The paths of the records main printed, in order.
PrintedPaths ==
    LET lines == SelectSeq(stdout, IsResultLine)
    IN  [k \in DOMAIN lines |-> lines[k][2]]

\* The paths of the records consumed that are not identical, in order.
DifferingPaths ==
    LET records == SelectSeq(yielded, NotIdentical)
    IN  [k \in DOMAIN records |-> records[k].relative_path]

\* The top-level counters of a summary.
TopCounters(s) == << s.only_in_dir1, s.only_in_dir2, s.in_both >>

\* C15: in main every record consumed is counted once in exactly one of
\* only_in_dir1, only_in_dir2 and in_both, printed or not: each counter is
\* the number of records of its classification consumed so far, so the
\* three add up to the number of records consumed; an identical record is
\* among those in_both counts and has no output line, every other record
\* has one; and no step makes a counter smaller.
C15_CountedOnce ==
    /\ [](/\ \A c \in {ONLY_IN_DIR1, ONLY_IN_DIR2, IN_BOTH} :
              TopCounters(summary)[c] =
                  Cardinality({ i \in DOMAIN yielded :
                                  yielded[i].classification = c })
          /\ summary.only_in_dir1 + summary.only_in_dir2 + summary.in_both
                = Len(yielded)
          /\ PrintedPaths = DifferingPaths)
    /\ [][ /\ \A c \in 1..3 : TopCounters(summary')[c] >= TopCounters(summary)[c]
           /\ SubCounters(summary') >= SubCounters(summary)
           /\ Len(yielded') \in { Len(yielded), Len(yielded) + 1 } ]_vars

\* main consumed an identical pair, which it did not print, and a record
\* that it printed; both are counted.
C15_Witness ==
    /\ pc \in {"queue", "for", "exit"}
    /\ \E i \in DOMAIN yielded : is_identical(yielded[i])
    /\ Len(PrintedPaths) >= 1
    /\ Len(PrintedPaths) < Len(yielded)
    /\ summary.in_both >= 1

\* Both scan tasks have run to completion.
ScansFinished ==
    /\ Len(futures) >= 2
    /\ futures[1].state = "FINISHED"
    /\ futures[2].state = "FINISHED"

\* C16: while either scan is unfinished nothing is classified: no pair
\* comparison has been submitted, the pending queue is empty, no record
\* has been yielded and the walk has not been entered; the mappings the
\* walk uses are the complete results of the two scans.
C16_ScansBeforeClassification ==
    /\ ~ScansFinished =>
          /\ PairFutures = {}
          /\ pending_queue = << >>
          /\ yielded = << >>
          /\ pc \notin {"for", "queue", "result"}
    /\ pc \in {"for", "queue", "result"} =>
          /\ DOMAIN dir1_files = Keys1
          /\ DOMAIN dir2_files = Keys2

\* A pool of one worker: the first scan has finished and its mapping was
\* taken, the second scan is still running, and nothing is classified
\* although both trees have files.
C16_Witness ==
    /\ max_workers = 1
    /\ pc = "scan2"
    /\ futures[1].state = "FINISHED"
    /\ running(futures[2])
    /\ Keys1 # {} /\ InBoth # {}
    /\ DOMAIN dir1_files = Keys1
    /\ PairFutures = {} /\ pending_queue = << >>

\* How many of the Both records consumed have these comparison fields.
BothCount(Test(_)) == Cardinality({ i \in BothYielded : Test(yielded[i]) })

Dir1Newer(r) == r.modified_time_comparison = Some(1)
Dir2Newer(r) == r.modified_time_comparison = Some(-1)
SameTimeDiffSize(r) ==
    r.modified_time_comparison = Some(0) /\ r.size_comparison # Some(0)
SameTimeSizeDiffContent(r) ==
    /\ r.modified_time_comparison = Some(0)
    /\ r.size_comparison = Some(0)
    /\ r.is_content_same = Some(FALSE)

\* C17: each Both sub-counter counts the records of its own case, the
\* modification time deciding first: dir1_newer and dir2_newer every record
\* whose mtime differs (whatever its size), same_time_diff_size only
\* records of equal mtime and different size, same_time_size_diff_content
\* only records of equal mtime, equal size and different content.  The
\* four cases exclude one another, so no record is in two sub-counters.
C17_MtimeFirst ==
    /\ summary.dir1_newer = BothCount(Dir1Newer)
    /\ summary.dir2_newer = BothCount(Dir2Newer)
    /\ summary.same_time_diff_size = BothCount(SameTimeDiffSize)
    /\ summary.same_time_size_diff_content = BothCount(SameTimeSizeDiffContent)

\* The accumulator was fed a pair that differs in mtime and in size, a
\* pair of equal mtime and different size, and a pair of equal mtime and
\* size and different content.
C17_Witness ==
    /\ \E i \in BothYielded :
          /\ yielded[i].modified_time_comparison = Some(-1)
          /\ yielded[i].size_comparison = Some(1)
    /\ \E i \in BothYielded : SameTimeDiffSize(yielded[i])
    /\ \E i \in BothYielded : SameTimeSizeDiffContent(yielded[i])
    /\ summary.dir2_newer = 1
    /\ summary.same_time_diff_size = 1
    /\ summary.same_time_size_diff_content = 1

\* A step of a worker thread, as seen from outside: a future starts to
\* run or finishes.  (A future is cancelled by the main thread only.)
WorkerStep ==
    \E i \in DOMAIN futures :
        /\ i \in DOMAIN futures'
        /\ futures'[i].state # futures[i].state
        /\ futures'[i].state \in {"RUNNING", "FINISHED"}

\* C18: a step of a worker changes the state and the result of one future
\* and nothing else: the pending queue, the two mappings, the walk and what
\* the consumer holds stay as they are, and no future is added, removed or
\* rebound.  The pending queue changes only in steps of the main thread
\* between the loop and yield_from_queue, and the two mappings change in no
\* step once the main thread has taken the results of the scans.
C18_SingleWriter ==
    /\ [][ WorkerStep =>
             /\ pending_queue' = pending_queue
             /\ UNCHANGED << dir1_files, dir2_files, all_files, idx,
                             stop_at_running_task, first_item, pc, exc,
                             consumer_vars, pool_vars >>
             /\ DOMAIN futures' = DOMAIN futures
             /\ \A j \in DOMAIN futures :
                   /\ futures'[j].fn = futures[j].fn
                   /\ futures'[j].arg = futures[j].arg
             /\ Cardinality({ j \in DOMAIN futures :
                                futures'[j] # futures[j] }) = 1 ]_vars
    /\ [][ pending_queue' # pending_queue =>
             (pc \in {"for", "queue"} /\ ~WorkerStep) ]_vars
    /\ [][ /\ pc \notin {"main", "with", "iter", "scan1"} =>
                 dir1_files' = dir1_files
           /\ pc \notin {"main", "with", "iter", "scan1", "scan2"} =>
                 dir2_files' = dir2_files ]_vars

\* A worker has finished a comparison whose slot is behind the head of the
\* pending queue while the head is still running: the slot is where it
\* was appended.
C18_Witness ==
    /\ Len(pending_queue) >= 2
    /\ pending_queue[1][1] = "future"
    /\ running(futures[pending_queue[1][2]])
    /\ \E k \in 2..Len(pending_queue) :
          /\ pending_queue[k][1] = "future"
          /\ futures[pending_queue[k][2]].state = "FINISHED"

\* The paths of the records yielded, in order, and of the slots of the
\* pending queue, head to tail.
YieldedPathSeq == [k \in DOMAIN yielded |-> yielded[k].relative_path]
QueuePathSeq == [k \in DOMAIN pending_queue |-> SlotPath(pending_queue[k])]

\* The main thread is in the loop of __iter__ or in yield_from_queue.
InWalk == pc \in {"for", "queue", "result"}

\* How many paths of the sorted union the loop has appended a slot for.
Walked ==
    IF pc = "for" THEN idx - 1
    ELSE IF stop_at_running_task THEN idx
    ELSE Len(all_files)

WalkedPrefix == SubSeq(Ascending(Union), 1, Walked)

\* C19 (as claimed): at every point of the iteration the paths yielded
\* followed by the paths of the pending queue are the prefix of the sorted
\* union walked so far.
C19_YieldedThenQueue ==
    InWalk => YieldedPathSeq \o QueuePathSeq = WalkedPrefix

\* The path of the future that was popped and whose result() the main
\* thread is in, if any.
InHand == IF pc = "result" THEN << futures[first_item].arg >> ELSE << >>

\* C19 (amended): at every point of the iteration the paths yielded, then
\* the path of the future popped and not yet yielded (the main thread is
\* in its result()), then the paths of the pending queue, are the prefix of
\* the sorted union walked so far; the queue changes only by an append at
\* its tail or the removal of its head.
C19_Pipeline ==
    /\ [](InWalk => YieldedPathSeq \o InHand \o QueuePathSeq = WalkedPrefix)
    /\ [][ \/ QueuePathSeq' = QueuePathSeq
           \/ /\ QueuePathSeq # << >>
              /\ QueuePathSeq' = Tail(QueuePathSeq)
           \/ /\ Len(QueuePathSeq') = Len(QueuePathSeq) + 1
              /\ SubSeq(QueuePathSeq', 1, Len(QueuePathSeq)) = QueuePathSeq
         ]_vars

\* A record was yielded, a future was popped and the main thread waits for
\* its result while it is still running, and a third slot is in the queue.
C19_Witness ==
    /\ pc = "result"
    /\ running(futures[first_item])
    /\ yielded # << >>
    /\ pending_queue # << >>

\* C20: when the fault of a comparison leaves the with block, __exit__
\* shuts the pool down without cancelling and waits: no future is ever
\* cancelled, the main thread is past __exit__ only when every future
\* submitted has finished, and no summary is printed.
C20_ErrorPathWaits ==
    exc = "OSError" =>
        /\ \A i \in DOMAIN futures : futures[i].state # "CANCELLED"
        /\ pc \in {"exit", "join", "after", "finally", "done"}
        /\ pc \in {"after", "finally", "done"} =>
              /\ executor = "shutdown"
              /\ \A i \in DOMAIN futures : futures[i].state = "FINISHED"
        /\ ~HasSummary

\* The fault of the head comparison was re-raised and the main thread is
\* in shutdown(wait=True) while a comparison submitted before the fault
\* has not started yet and another is running.
C20_Witness ==
    /\ exc = "OSError" /\ pc = "join"
    /\ executor = "shutdown"
    /\ \E i \in PairFutures : futures[i].state = "PENDING"
    /\ \E i \in PairFutures : running(futures[i])

====
